---- MODULE Spec2Model ----
(***************************************************************************)
(* The game loop of herta: BaseGame (lifecycle controller), SnakeGame      *)
(* (simulation) and the StorageManager high score they share.              *)
(*                                                                         *)
(* Every method of the source is an operator from a state record to a      *)
(* state record, composed the way the methods call each other; an action   *)
(* is one event-loop task (a button or API call, a keydown, one animation  *)
(* frame callback), which JavaScript runs to completion.                   *)
(*                                                                         *)
(* Time: the code reads the clock only as performance.now() - lastTime     *)
(* and as lastTime = performance.now(); the model keeps that difference    *)
(* in the variable elapsed.                                                *)
(***************************************************************************)
EXTENDS Integers, Sequences, FiniteSets, TLC

\* ---------------------------------------------------------------- constants
gridSize == 20
width == 600
height == 400
DefaultSpeed == 120
MinSpeed == 50
SpeedStep == 10
FoodScore == 10
LevelEvery == 50
\* JavaScript null as a value of state.highScore
Null == -1
\* animationId = null
NoId == 0

\* ------------------------------------------------------------------- bounds
\* largest value of performance.now() - lastTime the clock is let to reach
MaxElapsed == 200
\* most discrete steps (moveSnake calls) of one run
MaxMoves == 2
\* the clock advances in these amounts between two tasks
DeltaTimes == {100}

VARIABLES
  isRunning, isPaused, score, highScore, level,   \* BaseGame.state
  animationId,                                    \* BaseGame.animationId
  elapsed,                                        \* performance.now() - lastTime
  snake, food, direction, nextDirection,          \* SnakeGame entity model
  gameSpeed, moveTimer,
  stored,                                         \* localStorage item herta_game_snake_highscore
  frames,                                         \* the browser's pending animation frame callbacks
  log,                                            \* history: calls made by the last task, in order
  pausedDuring,                                   \* history: time passed while paused since lastTime was set
  moves,                                          \* history: moveSnake calls since init
  finalMax,                                       \* history: largest score a run has died with
  dead,                                           \* history: gameOver has run since init
  seen,                                           \* history: what onGameOver found when the last task called it
  config,                                         \* BaseGame.config of a game under construction
  keys, handlers, listening,                      \* an InputManager on its own
  lastEvent,                                      \* history: the last event of each key at the window
  invoked,                                        \* history: handlers the last event reached, in order
  lastCall,                                       \* history: the last of addHandler/removeHandler for each handler
  sampling                                        \* generateFood is inside its do ... while loop

vars == << isRunning, isPaused, score, highScore, level, animationId, elapsed,
           snake, food, direction, nextDirection, gameSpeed, moveTimer,
           stored, frames, log, pausedDuring, moves, finalMax, dead, seen,
           config, keys, handlers, listening, lastEvent, invoked, lastCall, sampling >>

\* The game reads neither its InputManager's key map (isKeyPressed has no
\* caller) nor any handler list but its own keydown handler, its config is
\* the fixed one of the SnakeGame constructor, and a task runs generateFood
\* to its end: the tasks of the game leave these variables alone.
otherVars == << config, keys, handlers, listening, lastEvent, invoked, lastCall, sampling >>

\* the program's own state (no history variables)
progVars == << isRunning, isPaused, score, highScore, level, animationId, elapsed,
               snake, food, direction, nextDirection, gameSpeed, moveTimer,
               stored, frames >>

Directions == {"up", "down", "left", "right"}

Cell(i, j) == [x |-> i * gridSize, y |-> j * gridSize]

\* every outcome of the two randomInt calls of generateFood
FoodRange ==
  { Cell(i, j) : i \in 0..((width \div gridSize) - 1), j \in 0..((height \div gridSize) - 1) }

\* the outcomes of randomInt the model draws: the cell in front of the initial
\* head and a corner cell that no run of the model reaches
FoodSamples == { Cell(6, 10), Cell(0, 0) }

\* ------------------------------------------------------------ state record
Cur(task) ==
  [ isRunning |-> isRunning, isPaused |-> isPaused, score |-> score,
    highScore |-> highScore, level |-> level, animationId |-> animationId,
    elapsed |-> elapsed, snake |-> snake, food |-> food,
    direction |-> direction, nextDirection |-> nextDirection,
    gameSpeed |-> gameSpeed, moveTimer |-> moveTimer, stored |-> stored,
    frames |-> frames, log |-> task, pausedDuring |-> pausedDuring,
    moves |-> moves, finalMax |-> finalMax, dead |-> dead, seen |-> << >>,
    retry |-> FALSE ]

\* the game's variables after a task that ends in s
SetGame(s) ==
  /\ isRunning' = s.isRunning
  /\ isPaused' = s.isPaused
  /\ score' = s.score
  /\ highScore' = s.highScore
  /\ level' = s.level
  /\ animationId' = s.animationId
  /\ elapsed' = s.elapsed
  /\ snake' = s.snake
  /\ food' = s.food
  /\ direction' = s.direction
  /\ nextDirection' = s.nextDirection
  /\ gameSpeed' = s.gameSpeed
  /\ moveTimer' = s.moveTimer
  /\ stored' = s.stored
  /\ frames' = s.frames
  /\ log' = s.log
  /\ pausedDuring' = s.pausedDuring
  /\ moves' = s.moves
  /\ finalMax' = s.finalMax
  /\ dead' = s.dead
  /\ seen' = s.seen

Set(s) == SetGame(s) /\ UNCHANGED otherVars

Called(s, name) == [s EXCEPT !.log = Append(@, name)]

\* ------------------------------------------------------- StorageManager
\* localStorage.getItem returns null: no item under the key
NoItem == << >>

\* JSON.stringify of a non-negative integer: its decimal digits
RECURSIVE JSONstringify(_)
JSONstringify(n) ==
  IF n < 10 THEN << n >> ELSE Append(JSONstringify(n \div 10), n % 10)

\* JSON.parse of such a text
RECURSIVE JSONparse(_)
JSONparse(t) ==
  IF Len(t) = 1 THEN t[1]
  ELSE 10 * JSONparse(SubSeq(t, 1, Len(t) - 1)) + t[Len(t)]

\* load(key, defaultValue): `defaultValue || null` when there is no item
load(item, defaultValue) ==
  IF item = NoItem
  THEN (IF defaultValue # 0 THEN defaultValue ELSE Null)
  ELSE JSONparse(item)

getHighScore(item) == load(item, 0)

\* the number JavaScript compares a value as: null counts as 0
ToNumber(v) == IF v = Null THEN 0 ELSE v

\* saveHighScore that stores every score
saveHighScoreAlways(s, sc) ==
  [Called(s, "saveHighScore") EXCEPT !.stored = JSONstringify(sc)]

saveHighScore(s, sc) ==
  LET currentHighScore == getHighScore(s.stored)
      s1 == Called(s, "saveHighScore")
  IN IF sc > ToNumber(currentHighScore)
     THEN [s1 EXCEPT !.stored = JSONstringify(sc)]
     ELSE s1

\* --------------------------------------------------------- Timing Source
\* The browser runs the pending callbacks in the order they were requested.
\* A handle is an opaque number; a new one differs from every pending one and
\* from the one the game still stores.
NewHandle(s) ==
  LET free == { id \in 1..(Len(s.frames) + 2) :
                  /\ id # s.animationId
                  /\ \A i \in DOMAIN s.frames : s.frames[i] # id }
  IN CHOOSE id \in free : \A o \in free : id <= o

requestAnimationFrame(s) ==
  LET id == NewHandle(s)
  IN [Called(s, "requestAnimationFrame") EXCEPT !.frames = Append(@, id), !.animationId = id]

cancelAnimationFrame(s, id) ==
  [Called(s, "cancelAnimationFrame") EXCEPT !.frames = SelectSeq(@, LAMBDA h : h # id)]

\* ---------------------------------------------------- BaseGame.stop
\* stop() that cancels the callback and keeps the handle
stopKeepsHandle(s) ==
  LET s1 == [Called(s, "stop") EXCEPT !.isRunning = FALSE]
  IN IF s1.animationId # NoId
     THEN cancelAnimationFrame(s1, s1.animationId)
     ELSE s1

stop(s) ==
  LET s1 == [Called(s, "stop") EXCEPT !.isRunning = FALSE]
  IN IF s1.animationId # NoId
     THEN [cancelAnimationFrame(s1, s1.animationId) EXCEPT !.animationId = NoId]
     ELSE s1

\* ------------------------------------------------------------ SnakeGame
OnSnake(sn, c) == \E i \in DOMAIN sn : sn[i] = c

\* generateFood with f the cell the sampling loop ends on: the loop repeats
\* while the sample lies on the snake, so a sample on the snake is not the last
\* generateFood that takes its first sample, on the snake or not
generateFoodFirstSample(s, f) == [Called(s, "generateFood") EXCEPT !.food = f]

\* generateFood whose loop repeats whatever the sample
generateFoodNeverEnds(s, f) ==
  [Called(s, "generateFood") EXCEPT !.food = f, !.retry = TRUE]

generateFood(s, f) ==
  [Called(s, "generateFood") EXCEPT !.food = f, !.retry = OnSnake(s.snake, f)]

\* init that leaves the move interval as it is
initKeepsSpeed(s, f) ==
  LET s1 == [Called(s, "init") EXCEPT
               !.snake = << Cell(5, 10), Cell(4, 10), Cell(3, 10) >>,
               !.direction = "right",
               !.nextDirection = "right",
               !.score = 0,
               !.level = 1,
               !.highScore = getHighScore(s.stored),
               !.moves = 0,
               !.dead = FALSE]
  IN generateFood(s1, f)

init(s, f) ==
  LET s1 == [Called(s, "init") EXCEPT
               !.snake = << Cell(5, 10), Cell(4, 10), Cell(3, 10) >>,
               !.direction = "right",
               !.nextDirection = "right",
               !.score = 0,
               !.level = 1,
               !.gameSpeed = DefaultSpeed,
               !.highScore = getHighScore(s.stored),
               !.moves = 0,
               !.dead = FALSE]
  IN generateFood(s1, f)

\* the notification: main's handler reads getState(); the handle and the
\* stored item are noted with it
onGameOver(s) ==
  [Called(s, "onGameOver") EXCEPT
     !.seen = Append(@, [isRunning |-> s.isRunning, score |-> s.score,
                         highScore |-> s.highScore, animationId |-> s.animationId,
                         stored |-> s.stored])]

\* gameOver that also takes the level back to 1
gameOverLowersLevel(s) ==
  LET s0 == [s EXCEPT !.finalMax = IF s.score > @ THEN s.score ELSE @, !.dead = TRUE,
                      !.level = 1]
      s1 == stop(Called(s0, "gameOver"))
      s2 == saveHighScore(s1, s1.score)
      s3 == [s2 EXCEPT !.highScore = getHighScore(s2.stored)]
  IN onGameOver(s3)

\* gameOver that notifies before it saves the score
gameOverNotifiesFirst(s) ==
  LET s0 == [s EXCEPT !.finalMax = IF s.score > @ THEN s.score ELSE @, !.dead = TRUE]
      s1 == onGameOver(stop(Called(s0, "gameOver")))
      s2 == saveHighScore(s1, s1.score)
  IN [s2 EXCEPT !.highScore = getHighScore(s2.stored)]

gameOver(s) ==
  LET s0 == [s EXCEPT !.finalMax = IF s.score > @ THEN s.score ELSE @, !.dead = TRUE]
      s1 == stop(Called(s0, "gameOver"))
      s2 == saveHighScore(s1, s1.score)
      s3 == [s2 EXCEPT !.highScore = getHighScore(s2.stored)]
  IN onGameOver(s3)

\* eatFood that goes on shortening the move interval at the floor
eatFoodBelowFloor(s, f) ==
  LET s1 == [Called(s, "eatFood") EXCEPT !.score = @ + FoodScore]
      s2 == IF s1.score % LevelEvery = 0 /\ s1.gameSpeed >= MinSpeed
            THEN [s1 EXCEPT !.gameSpeed = @ - SpeedStep, !.level = @ + 1]
            ELSE s1
  IN generateFood(s2, f)

\* eatFood that leaves the food where it was eaten
eatFoodKeepsFood(s, f) ==
  LET s1 == [Called(s, "eatFood") EXCEPT !.score = @ + FoodScore]
  IN IF s1.score % LevelEvery = 0 /\ s1.gameSpeed > MinSpeed
     THEN [s1 EXCEPT !.gameSpeed = @ - SpeedStep, !.level = @ + 1]
     ELSE s1

eatFood(s, f) ==
  LET s1 == [Called(s, "eatFood") EXCEPT !.score = @ + FoodScore]
      s2 == IF s1.score % LevelEvery = 0 /\ s1.gameSpeed > MinSpeed
            THEN [s1 EXCEPT !.gameSpeed = @ - SpeedStep, !.level = @ + 1]
            ELSE s1
  IN generateFood(s2, f)

NewHead(h, d) ==
  CASE d = "up" -> [h EXCEPT !.y = @ - gridSize]
    [] d = "down" -> [h EXCEPT !.y = @ + gridSize]
    [] d = "left" -> [h EXCEPT !.x = @ - gridSize]
    [] d = "right" -> [h EXCEPT !.x = @ + gridSize]

HitsWall(h) == h.x < 0 \/ h.x >= width \/ h.y < 0 \/ h.y >= height

\* moveSnake that puts the new head on before it tests for collisions
moveSnakeMovesFirst(s, f) ==
  LET s1 == [Called(s, "moveSnake") EXCEPT !.direction = s.nextDirection, !.moves = @ + 1]
      head == NewHead(s1.snake[1], s1.direction)
      s2 == [s1 EXCEPT !.snake = << head >> \o @]
  IN IF HitsWall(head) THEN gameOver(s2)
     ELSE IF OnSnake(s1.snake, head) THEN gameOver(s2)
     ELSE IF head = s2.food
          THEN eatFood(s2, f)
          ELSE [s2 EXCEPT !.snake = SubSeq(@, 1, Len(@) - 1)]

\* moveSnake that never removes the tail
moveSnakeKeepsTail(s, f) ==
  LET s1 == [Called(s, "moveSnake") EXCEPT !.direction = s.nextDirection, !.moves = @ + 1]
      head == NewHead(s1.snake[1], s1.direction)
  IN IF HitsWall(head) THEN gameOver(s1)
     ELSE IF OnSnake(s1.snake, head) THEN gameOver(s1)
     ELSE LET s2 == [s1 EXCEPT !.snake = << head >> \o @]
          IN IF head = s2.food THEN eatFood(s2, f) ELSE s2

\* moveSnake without the test for a collision with a segment
moveSnakeThroughItself(s, f) ==
  LET s1 == [Called(s, "moveSnake") EXCEPT !.direction = s.nextDirection, !.moves = @ + 1]
      head == NewHead(s1.snake[1], s1.direction)
  IN IF HitsWall(head) THEN gameOver(s1)
     ELSE LET s2 == [s1 EXCEPT !.snake = << head >> \o @]
          IN IF head = s2.food
             THEN eatFood(s2, f)
             ELSE [s2 EXCEPT !.snake = SubSeq(@, 1, Len(@) - 1)]

\* moveSnake that lets the head take the cell the tail is about to leave
moveSnakeSparesTail(s, f) ==
  LET s1 == [Called(s, "moveSnake") EXCEPT !.direction = s.nextDirection, !.moves = @ + 1]
      head == NewHead(s1.snake[1], s1.direction)
  IN IF HitsWall(head) THEN gameOver(s1)
     ELSE IF OnSnake(SubSeq(s1.snake, 1, Len(s1.snake) - 1), head) THEN gameOver(s1)
     ELSE LET s2 == [s1 EXCEPT !.snake = << head >> \o @]
          IN IF head = s2.food
             THEN eatFood(s2, f)
             ELSE [s2 EXCEPT !.snake = SubSeq(@, 1, Len(@) - 1)]

\* moveSnake that removes the tail after eating as well
moveSnakePopsAlways(s, f) ==
  LET s1 == [Called(s, "moveSnake") EXCEPT !.direction = s.nextDirection, !.moves = @ + 1]
      head == NewHead(s1.snake[1], s1.direction)
  IN IF HitsWall(head) THEN gameOver(s1)
     ELSE IF OnSnake(s1.snake, head) THEN gameOver(s1)
     ELSE LET s2 == [s1 EXCEPT !.snake = << head >> \o @]
              s3 == IF head = s2.food THEN eatFood(s2, f) ELSE s2
          IN [s3 EXCEPT !.snake = SubSeq(@, 1, Len(@) - 1)]

moveSnake(s, f) ==
  LET s1 == [Called(s, "moveSnake") EXCEPT !.direction = s.nextDirection, !.moves = @ + 1]
      head == NewHead(s1.snake[1], s1.direction)
  IN IF HitsWall(head) THEN gameOver(s1)
     ELSE IF OnSnake(s1.snake, head) THEN gameOver(s1)
     ELSE LET s2 == [s1 EXCEPT !.snake = << head >> \o @]
          IN IF head = s2.food
             THEN eatFood(s2, f)
             ELSE [s2 EXCEPT !.snake = SubSeq(@, 1, Len(@) - 1)]

\* update past its guard: the move timer and the step it releases
accumulate(s, deltaTime, f) ==
  LET s1 == [s EXCEPT !.moveTimer = @ + deltaTime]
  IN IF s1.moveTimer >= s1.gameSpeed
     THEN moveSnake([s1 EXCEPT !.moveTimer = 0], f)
     ELSE s1

update(s, deltaTime, f) ==
  LET s0 == Called(s, "update")
  IN IF ~s0.isRunning \/ s0.isPaused THEN s0
     ELSE accumulate(s0, deltaTime, f)

render(s) == Called(s, "render")

\* ------------------------------------------------------------- BaseGame
\* gameLoop that advances the simulation without looking at isPaused
gameLoopIgnoresPause(s, f) ==
  LET s0 == Called(s, "gameLoop")
  IN IF ~s0.isRunning THEN s0
     ELSE LET deltaTime == s0.elapsed
              s1 == [s0 EXCEPT !.elapsed = 0, !.pausedDuring = FALSE]
              s2 == render(accumulate(Called(s1, "update"), deltaTime, f))
          IN requestAnimationFrame(s2)

\* gameLoop that never moves lastTime on
gameLoopKeepsLastTime(s, f) ==
  LET s0 == Called(s, "gameLoop")
  IN IF ~s0.isRunning THEN s0
     ELSE LET deltaTime == s0.elapsed
              s2 == IF ~s0.isPaused THEN render(update(s0, deltaTime, f)) ELSE s0
          IN requestAnimationFrame(s2)

\* gameLoop that goes on when the game is not running
gameLoopIgnoresStop(s, f) ==
  LET s0 == Called(s, "gameLoop")
      deltaTime == s0.elapsed
      s1 == [s0 EXCEPT !.elapsed = 0, !.pausedDuring = FALSE]
      s2 == IF ~s1.isPaused THEN render(update(s1, deltaTime, f)) ELSE s1
  IN requestAnimationFrame(s2)

gameLoop(s, f) ==
  LET s0 == Called(s, "gameLoop")
  IN IF ~s0.isRunning THEN s0
     ELSE LET deltaTime == s0.elapsed
              s1 == [s0 EXCEPT !.elapsed = 0, !.pausedDuring = FALSE]
              s2 == IF ~s1.isPaused THEN render(update(s1, deltaTime, f)) ELSE s1
          IN requestAnimationFrame(s2)

\* start() without its guard: it starts over when already running
startAlways(s, f) ==
  gameLoop([Called(s, "start") EXCEPT !.isRunning = TRUE, !.isPaused = FALSE,
                                      !.elapsed = 0, !.pausedDuring = FALSE], f)

\* start() that also clears the score
startClearsScore(s, f) ==
  LET s0 == Called(s, "start")
  IN IF s0.isRunning THEN s0
     ELSE gameLoop([s0 EXCEPT !.isRunning = TRUE, !.isPaused = FALSE, !.score = 0,
                              !.elapsed = 0, !.pausedDuring = FALSE], f)

start(s, f) ==
  LET s0 == Called(s, "start")
  IN IF s0.isRunning THEN s0
     ELSE gameLoop([s0 EXCEPT !.isRunning = TRUE, !.isPaused = FALSE,
                              !.elapsed = 0, !.pausedDuring = FALSE], f)

\* pause() that sets the flag instead of negating it
pauseSets(s) == [Called(s, "pause") EXCEPT !.isPaused = TRUE]

pause(s) == [Called(s, "pause") EXCEPT !.isPaused = ~@]

\* reset() that does not stop the loop
resetSkipsStop(s, f) ==
  LET s1 == Called(s, "reset")
      s2 == [s1 EXCEPT !.score = 0, !.level = 1]
  IN init(s2, f)

reset(s, f) ==
  LET s1 == stop(Called(s, "reset"))
      s2 == [s1 EXCEPT !.score = 0, !.level = 1]
  IN init(s2, f)

\* SnakeGame.setupEventListeners: the keydown handler
Opposite(d) ==
  CASE d = "up" -> "down" [] d = "down" -> "up" [] d = "left" -> "right" [] d = "right" -> "left"

Keys == {"ArrowUp", "ArrowDown", "ArrowLeft", "ArrowRight", " ", "Enter"}

ArrowKeys == Keys \ {" ", "Enter"}

KeyDirection(key) ==
  CASE key = "ArrowUp" -> "up" [] key = "ArrowDown" -> "down"
    [] key = "ArrowLeft" -> "left" [] key = "ArrowRight" -> "right"

\* the handler with the reversal test made against the pending direction
onKeyDownAgainstPending(s, key, f, g) ==
  CASE key = " " -> pause(s)
    [] key = "Enter" -> start(reset(s, f), g)
    [] OTHER ->
         IF s.nextDirection # Opposite(KeyDirection(key))
         THEN [Called(s, "input") EXCEPT !.nextDirection = KeyDirection(key)]
         ELSE Called(s, "input")

\* the handler without its reversal test
onKeyDownUnchecked(s, key, f, g) ==
  CASE key = " " -> pause(s)
    [] key = "Enter" -> start(reset(s, f), g)
    [] OTHER -> [Called(s, "input") EXCEPT !.nextDirection = KeyDirection(key)]

\* the log shows the methods the handler calls; a directional key, which it
\* handles itself, shows as "input"
onKeyDown(s, key, f, g) ==
  CASE key = " " -> pause(s)
    [] key = "Enter" -> start(reset(s, f), g)
    [] OTHER ->
         IF s.direction # Opposite(KeyDirection(key))
         THEN [Called(s, "input") EXCEPT !.nextDirection = KeyDirection(key)]
         ELSE Called(s, "input")

\* --------------------------------------------------------------- actions
\* the object as the constructors leave it (BaseGame, then the field
\* initialisers of SnakeGame), with `item` in localStorage: the high score
\* that the runs of earlier page loads left there
Constructed(item) ==
  [ isRunning |-> FALSE, isPaused |-> FALSE, score |-> 0,
    highScore |-> 0, level |-> 1, animationId |-> NoId,
    elapsed |-> 0, snake |-> << >>, food |-> Cell(0, 0),
    direction |-> "right", nextDirection |-> "right",
    gameSpeed |-> DefaultSpeed, moveTimer |-> 0, stored |-> item,
    frames |-> << >>, log |-> << >>, pausedDuring |-> FALSE,
    moves |-> 0, finalMax |-> ToNumber(load(item, 0)), dead |-> FALSE,
    seen |-> << >>,
    retry |-> FALSE ]

\* what localStorage holds when the page loads
InitItems == { NoItem }

\* steps from the initial head cell to the last column of the board
HeadStart == (width \div gridSize) - 1 - 5

\* n calls of update, each with a whole move interval
RECURSIVE Updates(_, _, _)
Updates(s, n, f) ==
  IF n = 0 THEN s ELSE Updates(update(s, s.gameSpeed, f), n - 1, f)

\* the history variables as a run of the model starts with them
Fresh(s) == [s EXCEPT !.log = << >>, !.seen = << >>, !.moves = 0, !.pausedDuring = FALSE]

\* The states a run of the model starts in: the state after
\* `new SnakeGame(canvas)` and `game.init()`, as main does, and the state a
\* game reaches from there by start(), HeadStart steps straight on and stop(),
\* which leaves the head in the last column.
GameIs(s) ==
  /\ ~s.retry
  /\ isRunning = s.isRunning
  /\ isPaused = s.isPaused
  /\ score = s.score
  /\ highScore = s.highScore
  /\ level = s.level
  /\ animationId = s.animationId
  /\ elapsed = s.elapsed
  /\ snake = s.snake
  /\ food = s.food
  /\ direction = s.direction
  /\ nextDirection = s.nextDirection
  /\ gameSpeed = s.gameSpeed
  /\ moveTimer = s.moveTimer
  /\ stored = s.stored
  /\ frames = s.frames
  /\ log = s.log
  /\ pausedDuring = s.pausedDuring
  /\ moves = s.moves
  /\ finalMax = s.finalMax
  /\ dead = s.dead
  /\ seen = s.seen

\* the InputManager as its constructor leaves it, before any event
EventTypes == {"keydown", "keyup"}

InputKeys == {"ArrowUp", " "}

\* the functions registered as handlers
Handlers == {"h1", "h2"}

InputIdle ==
  /\ keys = << >>
  /\ handlers = << >>
  /\ listening = TRUE
  /\ lastEvent = [key \in InputKeys |-> "none"]
  /\ invoked = << >>
  /\ lastCall = [type \in EventTypes |-> [h \in Handlers |-> "none"]]

\* the config the SnakeGame constructor passes to BaseGame
SnakeConfig == [width |-> width, height |-> height]

IsInit(s) ==
  /\ GameIs(s)
  /\ config = SnakeConfig
  /\ InputIdle
  /\ sampling = FALSE

Init ==
  \E item \in InitItems, f \in FoodSamples, n \in {0, HeadStart} :
    LET s0 == init(Constructed(item), f)
    IN IsInit(IF n = 0 THEN s0
              ELSE Fresh(stop(Updates(start(s0, f), n, f))))

\* the samples a task draws from: none but the first is looked at when the
\* task never reaches generateFood
Draws(s) ==
  IF \E i \in DOMAIN s.log : s.log[i] = "generateFood"
  THEN FoodSamples ELSE { Cell(0, 0) }

\* a task ends in s: the food sampling ended on a free cell, within the bound
Ends(s) == ~s.retry /\ s.moves <= MaxMoves /\ Set(s)

Start ==
  \E f \in Draws(start(Cur(<< >>), Cell(0, 0))) : Ends(start(Cur(<< >>), f))

Pause == Ends(pause(Cur(<< >>)))

Stop == Ends(stop(Cur(<< >>)))

Reset == \E f \in FoodSamples : Ends(reset(Cur(<< >>), f))

\* the reset button: reset(), then init() once more (its synchronous part)
ResetClick ==
  \E f \in FoodSamples, g \in FoodSamples : Ends(init(reset(Cur(<< >>), f), g))

\* the draws of start() after reset(): those of a task that starts at start()
Restart(s) == [s EXCEPT !.log = << >>]

\* only Enter reaches generateFood: in reset(), and in start() were it to step
KeyPress(key) ==
  IF key = "Enter"
  THEN \E f \in FoodSamples :
         \E g \in Draws(start(Restart(reset(Cur(<< >>), f)), Cell(0, 0))) :
           Ends(onKeyDown(Cur(<< >>), key, f, g))
  ELSE Ends(onKeyDown(Cur(<< >>), key, Cell(0, 0), Cell(0, 0)))

KeyDown == \E key \in Keys : KeyPress(key)

\* the browser runs the oldest pending animation frame callback
Frame(s) == [s EXCEPT !.frames = Tail(@)]

Tick ==
  /\ frames # << >>
  /\ \E f \in Draws(gameLoop(Frame(Cur(<< >>)), Cell(0, 0))) :
       Ends(gameLoop(Frame(Cur(<< >>)), f))

\* the clock advances between two tasks
Elapse ==
  \E d \in DeltaTimes :
    /\ elapsed + d <= MaxElapsed
    /\ elapsed' = elapsed + d
    /\ pausedDuring' = (pausedDuring \/ isPaused)
    /\ log' = << >>
    /\ seen' = << >>
    /\ UNCHANGED << isRunning, isPaused, score, highScore, level, animationId,
                    snake, food, direction, nextDirection, gameSpeed, moveTimer,
                    stored, frames, moves, finalMax, dead, otherVars >>

Next == Start \/ Pause \/ Stop \/ Reset \/ ResetClick \/ KeyDown \/ Tick \/ Elapse

Spec == Init /\ [][Next]_vars

\* ------------------------------------------------ runs with a grown snake
\* A second specification for what only a longer game shows: a snake that
\* can reach itself, scores of 50 and more, high scores in storage.  Its runs
\* start from states that a player reaches who steers a serpentine course
\* (right along row 10, down one row at the edge, back left, ...) and finds
\* every food in front of the head; from there the arrow keys, the space
\* key, start(), stop() and the frame callbacks are free, with the clock
\* advancing by whole move intervals.

\* the direction of that course at head cell h when heading d
Course(h, d) ==
  CASE d = "right" -> IF h.x = width - gridSize THEN "down" ELSE "right"
    [] d = "left" -> IF h.x = 0 THEN "down" ELSE "left"
    [] OTHER -> IF h.x = 0 THEN "right" ELSE "left"

\* the keydown, if any, that keeps the snake on the course
Steer(s) ==
  LET d == Course(s.snake[1], s.direction)
  IN IF d = s.direction THEN s
     ELSE onKeyDown(s, CHOOSE key \in ArrowKeys : KeyDirection(key) = d,
                    Cell(0, 0), Cell(0, 0))

\* n steps on the course, each one onto the food; generateFood then ends on
\* the cell the next step will reach
RECURSIVE Play(_, _)
Play(s, n) ==
  IF n = 0 THEN s
  ELSE LET s1 == Steer(s)
           h == NewHead(s1.snake[1], s1.nextDirection)
           f == NewHead(h, Course(h, s1.nextDirection))
       IN CHOOSE r \in { Play(s2, n - 1) : s2 \in { update(s1, s1.gameSpeed, f) } } : TRUE

\* two more steps that leave the course: down, then back left beside the body
UTurn(s) ==
  LET s1 == update(onKeyDown(s, "ArrowDown", Cell(0, 0), Cell(0, 0)), s.gameSpeed, Cell(0, 0))
  IN update(onKeyDown(s1, "ArrowLeft", Cell(0, 0), Cell(0, 0)), s1.gameSpeed, Cell(0, 0))

\* Where the runs of this specification start: what localStorage held when
\* the page loaded (nothing, or the high score 50 of an earlier page load),
\* the number of foods eaten on the course, and whether the snake has turned
\* back beside its body.
RunStart(item, eaten, turned) == [item |-> item, eaten |-> eaten, turned |-> turned]

RunStarts ==
  { RunStart(NoItem, 1, TRUE),
    RunStart(JSONstringify(LevelEvery), 4, TRUE),
    RunStart(JSONstringify(LevelEvery), 9, TRUE),
    RunStart(NoItem, 4, FALSE),
    RunStart(JSONstringify(LevelEvery), 9, FALSE),
    RunStart(NoItem, 24, FALSE),
    RunStart(NoItem, 34, FALSE),
    RunStart(NoItem, 39, FALSE) }

\* most discrete steps of one run of this specification
MaxRunMoves == 2

InitRun ==
  \E r \in RunStarts :
    LET s0 == init(Constructed(r.item), Cell(6, 10))
        s1 == Play(start(s0, Cell(6, 10)), r.eaten)
    IN IsInit(Fresh(stop(IF r.turned THEN UTurn(s1) ELSE s1)))

EndsRun(s) == ~s.retry /\ s.moves <= MaxRunMoves /\ Set(s)

StartRun ==
  \E f \in Draws(start(Cur(<< >>), Cell(0, 0))) : EndsRun(start(Cur(<< >>), f))

StopRun == EndsRun(stop(Cur(<< >>)))

\* the keys of these runs; Enter (reset, then start) begins a game of the
\* first specification
RunKeys == Keys \ {"Enter"}

KeyDownRun ==
  \E key \in RunKeys : EndsRun(onKeyDown(Cur(<< >>), key, Cell(0, 0), Cell(0, 0)))

TickRun ==
  /\ frames # << >>
  /\ \E f \in Draws(gameLoop(Frame(Cur(<< >>)), Cell(0, 0))) :
       EndsRun(gameLoop(Frame(Cur(<< >>)), f))

\* the clock advances by one move interval between two tasks
ElapseInterval ==
  /\ elapsed = 0
  /\ elapsed' = gameSpeed
  /\ pausedDuring' = (pausedDuring \/ isPaused)
  /\ log' = << >>
  /\ seen' = << >>
  /\ UNCHANGED << isRunning, isPaused, score, highScore, level, animationId,
                  snake, food, direction, nextDirection, gameSpeed, moveTimer,
                  stored, frames, moves, finalMax, dead, otherVars >>

NextRun == StartRun \/ StopRun \/ KeyDownRun \/ TickRun \/ ElapseInterval

SpecRun == InitRun /\ [][NextRun]_vars

\* -------------------------------------------------- a render that throws
\* A third specification: render() may throw (canvas.getContext('2d') gave
\* null, a drawing call fails).  gameLoop has no try ... catch, so the
\* exception leaves it at that call.
gameLoopRenderThrows(s, f) ==
  LET s0 == Called(s, "gameLoop")
  IN IF ~s0.isRunning THEN s0
     ELSE LET deltaTime == s0.elapsed
              s1 == [s0 EXCEPT !.elapsed = 0, !.pausedDuring = FALSE]
          IN IF ~s1.isPaused
             THEN Called(render(update(s1, deltaTime, f)), "throw")
             ELSE requestAnimationFrame(s1)

TickRenderThrows ==
  /\ frames # << >>
  /\ isRunning /\ ~isPaused
  /\ \E f \in Draws(gameLoopRenderThrows(Frame(Cur(<< >>)), Cell(0, 0))) :
       Ends(gameLoopRenderThrows(Frame(Cur(<< >>)), f))

NextFail == Start \/ Pause \/ Stop \/ Tick \/ TickRenderThrows \/ Elapse

SpecFail == Init /\ [][NextFail]_vars

\* the variables of the game
gameVars == << isRunning, isPaused, score, highScore, level, animationId, elapsed,
               snake, food, direction, nextDirection, gameSpeed, moveTimer,
               stored, frames, log, pausedDuring, moves, finalMax, dead, seen >>

\* the runs with a grown snake, which reset() may end
ResetRun == \E f \in FoodSamples : EndsRun(reset(Cur(<< >>), f))

NextRunReset == NextRun \/ ResetRun

SpecRunReset == InitRun /\ [][NextRunReset]_vars

\* ------------------------------------------------------ BaseGame constructor
\* A fourth specification: a subclass of BaseGame constructed with a config
\* of the caller's choice, as the tests of BaseGame do.

\* largest board dimension, in grid cells, a caller passes
MaxDimension == 5

Dimensions == { c * gridSize : c \in (0 - MaxDimension)..MaxDimension }

GameConfig(w, h) == [width |-> w, height |-> h]

\* no game has been constructed
NoGame == [constructed |-> FALSE]

\* the constructor stores the config as it is given
BaseGame(cfg) == cfg

InitConstruct ==
  /\ GameIs(Constructed(NoItem))
  /\ config = NoGame
  /\ InputIdle
  /\ sampling = FALSE

Construct ==
  /\ config = NoGame
  /\ \E w \in Dimensions, h \in Dimensions : config' = BaseGame(GameConfig(w, h))
  /\ UNCHANGED << gameVars, keys, handlers, listening, lastEvent, invoked, lastCall, sampling >>

SpecConstruct == InitConstruct /\ [][Construct]_vars

\* --------------------------------------------- the loop of generateFood
\* A fifth specification: generateFood one sample at a time.  It starts where
\* generateFood is entered - by init with the initial snake, by eatFood with
\* a snake that covers the board but one cell, and with one that covers it -
\* and each step is one pass of do ... while (foodOnSnake).
BoardCells == (width \div gridSize) * (height \div gridSize)

\* the k-th cell of a course over the whole board: along row 0, back along
\* row 1, and so on
CourseCell(k) ==
  LET cols == width \div gridSize
      r == (k - 1) \div cols
      c == (k - 1) % cols
  IN Cell(IF r % 2 = 0 THEN c ELSE cols - 1 - c, r)

\* a snake that has grown along that course to n segments
Covering(n) == [k \in 1..n |-> CourseCell(n + 1 - k)]

\* the game at eatFood's call of generateFood, the snake being sn: the score
\* of its foods, the level and move interval eatFood has given it
Grown(sn) ==
  LET s0 == start(init(Constructed(NoItem), Cell(0, 0)), Cell(0, 0))
      sc == FoodScore * (Len(sn) - 3)
      ups == IF sc \div LevelEvery < (DefaultSpeed - MinSpeed) \div SpeedStep
             THEN sc \div LevelEvery ELSE (DefaultSpeed - MinSpeed) \div SpeedStep
  IN [Fresh(s0) EXCEPT !.snake = sn, !.food = sn[1],
                       !.direction = "left", !.nextDirection = "left",
                       !.score = sc, !.level = 1 + ups,
                       !.gameSpeed = DefaultSpeed - SpeedStep * ups]

InitFood ==
  /\ \/ GameIs([Constructed(NoItem) EXCEPT
                   !.snake = << Cell(5, 10), Cell(4, 10), Cell(3, 10) >>])
     \/ GameIs(Grown(Covering(BoardCells - 1)))
     \/ GameIs(Grown(Covering(BoardCells)))
  /\ config = SnakeConfig
  /\ InputIdle
  /\ sampling = TRUE

\* one pass of the loop, randomInt giving cell c
Sample(c) ==
  /\ sampling
  /\ LET s == generateFood(Cur(<< >>), c)
     IN food' = s.food /\ sampling' = s.retry /\ log' = s.log
  /\ UNCHANGED << isRunning, isPaused, score, highScore, level, animationId, elapsed,
                  snake, direction, nextDirection, gameSpeed, moveTimer, stored,
                  frames, pausedDuring, moves, finalMax, dead, seen,
                  config, keys, handlers, listening, lastEvent, invoked, lastCall >>

\* the samples followed: the row the initial snake lies in and the row the
\* course ends in
SampleCells == { c \in FoodRange : c.y \in {10 * gridSize, height - gridSize} }

SampleFree == \E c \in SampleCells : ~OnSnake(snake, c) /\ Sample(c)

SampleOnSnake == \E c \in SampleCells : OnSnake(snake, c) /\ Sample(c)

NextFood == SampleFree \/ SampleOnSnake

\* randomInt is uniform: while a cell is free, the sampling does not miss the
\* free cells for ever
SpecFood == InitFood /\ [][NextFood]_vars /\ WF_vars(SampleFree)

\* ------------------------------------------------------------ InputManager
\* A sixth specification: an InputManager, its owner adding and removing
\* handlers and destroying it, the window sending it key events.

\* most handlers a list holds
MaxHandlers == 2

\* a Map: a function on the keys that were set
MapGet(m, k, absent) == IF k \in DOMAIN m THEN m[k] ELSE absent

MapSet(m, k, v) == [x \in DOMAIN m \cup {k} |-> IF x = k THEN v ELSE m[x]]

\* the manager, and the calls and invocations of the task under way
CurInput ==
  [keys |-> keys, handlers |-> handlers, listening |-> listening,
   invoked |-> << >>, log |-> << >>]

isKeyPressed(ks, key) == MapGet(ks, key, FALSE)

triggerHandler(m, eventType) ==
  [m EXCEPT !.invoked = @ \o MapGet(m.handlers, eventType, << >>),
            !.log = Append(@, "triggerHandler")]

handleKeyDown(m, key) ==
  triggerHandler([m EXCEPT !.keys = MapSet(@, key, TRUE),
                           !.log = Append(@, "handleKeyDown")], "keydown")

\* handleKeyUp that leaves the key as it was
handleKeyUpKeepsKey(m, key) ==
  triggerHandler([m EXCEPT !.log = Append(@, "handleKeyUp")], "keyup")

handleKeyUp(m, key) ==
  triggerHandler([m EXCEPT !.keys = MapSet(@, key, FALSE),
                           !.log = Append(@, "handleKeyUp")], "keyup")

addHandler(m, eventType, handler) ==
  [m EXCEPT !.handlers = MapSet(@, eventType,
                                Append(MapGet(@, eventType, << >>), handler)),
            !.log = Append(@, "addHandler")]

\* Array.indexOf, positions counted from 1 and Null for none
IndexOf(l, x) ==
  IF \E i \in DOMAIN l : l[i] = x
  THEN CHOOSE i \in DOMAIN l : l[i] = x /\ \A j \in 1..(i - 1) : l[j] # x
  ELSE Null

\* Array.splice(index, 1)
Splice(l, index) == SubSeq(l, 1, index - 1) \o SubSeq(l, index + 1, Len(l))

removeHandler(m, eventType, handler) ==
  LET m0 == [m EXCEPT !.log = Append(@, "removeHandler")]
  IN IF eventType \in DOMAIN m0.handlers
     THEN LET index == IndexOf(m0.handlers[eventType], handler)
          IN IF index # Null
             THEN [m0 EXCEPT !.handlers[eventType] = Splice(@, index)]
             ELSE m0
     ELSE m0

destroy(m) ==
  [m EXCEPT !.listening = FALSE, !.handlers = << >>, !.keys = << >>,
            !.log = Append(@, "destroy")]

\* the window's dispatch of an event to the listeners setupEventListeners
\* added and destroy has not removed
Dispatch(m, eventType, key) ==
  LET m0 == [m EXCEPT !.log = Append(@, eventType)]
  IN IF ~m0.listening THEN m0
     ELSE IF eventType = "keydown" THEN handleKeyDown(m0, key)
     ELSE handleKeyUp(m0, key)

InitInput ==
  /\ GameIs(Constructed(NoItem))
  /\ config = SnakeConfig
  /\ InputIdle
  /\ sampling = FALSE

SetInput(m) ==
  /\ keys' = m.keys
  /\ handlers' = m.handlers
  /\ listening' = m.listening
  /\ invoked' = m.invoked
  /\ log' = m.log
  /\ UNCHANGED << isRunning, isPaused, score, highScore, level, animationId, elapsed,
                  snake, food, direction, nextDirection, gameSpeed, moveTimer,
                  stored, frames, pausedDuring, moves, finalMax, dead, seen,
                  config, sampling >>

KeyEvent ==
  \E eventType \in EventTypes, key \in InputKeys :
    /\ SetInput(Dispatch(CurInput, eventType, key))
    /\ lastEvent' = [lastEvent EXCEPT ![key] = eventType]
    /\ UNCHANGED lastCall

AddHandler ==
  \E eventType \in EventTypes, handler \in Handlers :
    /\ Len(MapGet(handlers, eventType, << >>)) < MaxHandlers
    /\ SetInput(addHandler(CurInput, eventType, handler))
    /\ lastCall' = [lastCall EXCEPT ![eventType][handler] = "added"]
    /\ UNCHANGED lastEvent

RemoveHandler ==
  \E eventType \in EventTypes, handler \in Handlers :
    /\ SetInput(removeHandler(CurInput, eventType, handler))
    /\ lastCall' = [lastCall EXCEPT ![eventType][handler] = "removed"]
    /\ UNCHANGED lastEvent

Destroy ==
  /\ SetInput(destroy(CurInput))
  /\ UNCHANGED << lastEvent, lastCall >>

NextInput == KeyEvent \/ AddHandler \/ RemoveHandler \/ Destroy

SpecInput == InitInput /\ [][NextInput]_vars

\* ------------------------------------------------------- SnakeGame.destroy
\* A seventh specification: the game under the calls of its public methods
\* start, pause, stop, reset and destroy, the keys and the frame callbacks.
\* destroy() stops the loop and destroys the InputManager, after which no
\* key reaches the game's handler.
destroyGame(s) == stop(Called(s, "destroy"))

DestroyGame ==
  /\ SetGame(destroyGame(Cur(<< >>)))
  /\ LET m == destroy(CurInput)
     IN keys' = m.keys /\ handlers' = m.handlers /\ listening' = m.listening
  /\ UNCHANGED << config, lastEvent, invoked, lastCall, sampling >>

KeyDownHeard == listening /\ KeyDown

NextStop ==
  \/ Start \/ Pause \/ Stop \/ Reset \/ DestroyGame
  \/ KeyDownHeard \/ Tick \/ Elapse

SpecStop == Init /\ [][NextStop]_vars

\* ================================================================ claims
Has(l, name) == \E i \in DOMAIN l : l[i] = name

Count(l, name) == Len(SelectSeq(l, LAMBDA c : c = name))

\* the step is a task that began with a call of `name`
TaskIs(name) == log' # << >> /\ log'[1] = name

\* the program's part of a state record
ProgOf(s) ==
  << s.isRunning, s.isPaused, s.score, s.highScore, s.level, s.animationId,
     s.elapsed, s.snake, s.food, s.direction, s.nextDirection, s.gameSpeed,
     s.moveTimer, s.stored, s.frames >>

entityVars == << snake, food, direction, nextDirection, gameSpeed, moveTimer >>

stateVars == << isRunning, isPaused, score, highScore, level >>

\* C1: whenever the game is not running (stop() has returned, start() has
\* not been called since) no animation frame callback is pending, so no
\* further gameLoop invocation is delivered.  The code breaks it: gameOver()
\* calls stop() inside gameLoop, which then requests the next frame anyway.
C1_NoFrameWhileStopped == ~isRunning => frames = << >>

\* C2: start() while running changes nothing; start() while not running
\* sets isRunning, clears isPaused, takes the current time as lastTime and
\* requests the first animation frame, whose handle it stores.
C2_StartContract ==
  [][ TaskIs("start") =>
        IF isRunning
        THEN UNCHANGED progVars
        ELSE /\ isRunning' /\ ~isPaused'
             /\ elapsed' = 0
             /\ animationId' # NoId
             /\ ~Has(frames, animationId')
             /\ frames' = Append(frames, animationId') ]_vars

C2_Started ==
  /\ log # << >> /\ log[1] = "start" /\ Has(log, "requestAnimationFrame")
  /\ isRunning /\ ~isPaused /\ elapsed = 0

\* C3: pause() negates isPaused in every state, changes nothing else, and a
\* second pause() right after it restores the state before the first.
C3_PauseToggles ==
  [][ TaskIs("pause") =>
        /\ isPaused' = ~isPaused
        /\ UNCHANGED << isRunning, score, highScore, level, animationId, elapsed,
                        snake, food, direction, nextDirection, gameSpeed,
                        moveTimer, stored, frames >>
        /\ ProgOf(pause(Cur(<< >>)')) = ProgOf(Cur(<< >>)) ]_vars

C3_Paused == log = << "pause" >> /\ isPaused /\ isRunning /\ score > 0

\* C4: a tick delivered while isPaused leaves the entity model (segments,
\* food, both directions, move interval, move timer) and the game state
\* (isRunning, isPaused, score, highScore, level) as they were.
C4_PausedTicksFrozen ==
  [][ (TaskIs("gameLoop") /\ isPaused) => UNCHANGED << entityVars, stateVars >> ]_vars

C4_PausedTick ==
  /\ log = << "gameLoop", "requestAnimationFrame" >>
  /\ isPaused /\ isRunning /\ moveTimer > 0 /\ score > 0

\* C5: the deltaTime a tick hands to update covers no time that passed while
\* the game was paused.  The code breaks it: lastTime moves only at a tick,
\* so a pause that ends before the next tick leaves its time in deltaTime.
C5_NoPausedTimeInDelta ==
  [][ (TaskIs("gameLoop") /\ Has(log', "update")) => ~pausedDuring ]_vars

\* C6: stop() leaves isRunning false and no handle stored, touches neither
\* isPaused, score, highScore, level nor the entity model, and a second
\* stop() right after it changes nothing.
C6_StopIdempotent ==
  [][ TaskIs("stop") =>
        /\ ~isRunning'
        /\ animationId' = NoId
        /\ UNCHANGED << isPaused, score, highScore, level, entityVars >>
        /\ ProgOf(stop(Cur(<< >>)')) = ProgOf(Cur(<< >>)') ]_vars

C6_Stopped ==
  /\ log = << "stop", "cancelAnimationFrame" >>
  /\ ~isRunning /\ isPaused /\ score > 0

C8_TickContract ==
  [][ TaskIs("gameLoop") =>
        IF ~isRunning
        THEN /\ log' = << "gameLoop" >>
             /\ frames' = Tail(frames)
             /\ UNCHANGED << stateVars, entityVars, animationId, elapsed, stored >>
        ELSE /\ SelectSeq(log', LAMBDA c : c \in {"update", "render"})
                  = (IF isPaused THEN << >> ELSE << "update", "render" >>)
             /\ ~isPaused =>
                  IF moveTimer + elapsed >= gameSpeed
                  THEN moveTimer' = 0 /\ Count(log', "moveSnake") = 1
                  ELSE moveTimer' = moveTimer + elapsed /\ Count(log', "moveSnake") = 0
             /\ elapsed' = 0
             /\ animationId' # NoId
             /\ frames' # << >>
             /\ frames'[Len(frames')] = animationId'
             /\ log'[Len(log')] = "requestAnimationFrame" ]_vars

C8_DeathTick ==
  /\ log # << >> /\ log[1] = "gameLoop" /\ Has(log, "gameOver")
  /\ log[Len(log)] = "requestAnimationFrame"

\* C9: one update call on a running, unpaused game performs
\* floor((moveTimer + deltaTime) / gameSpeed) steps and keeps the remainder
\* in moveTimer.  The code breaks it: update performs at most one step and
\* sets moveTimer to 0.
C9_FloorSteps ==
  [][ (TaskIs("gameLoop") /\ isRunning /\ ~isPaused /\ ~Has(log', "gameOver")) =>
        LET accumulated == moveTimer + elapsed
        IN /\ Count(log', "moveSnake") = accumulated \div gameSpeed
           /\ moveTimer' = accumulated % gameSpeed ]_vars

\* C10: a directional key opposite to the current direction changes nothing,
\* whatever the pending direction is; any other directional key makes its
\* direction the pending one and changes nothing else.
C10_ReversalRejected ==
  [][ log' = << "input" >> =>
        \A key \in ArrowKeys :
          KeyPress(key) =>
            IF KeyDirection(key) = Opposite(direction)
            THEN UNCHANGED progVars
            ELSE /\ nextDirection' = KeyDirection(key)
                 /\ UNCHANGED << stateVars, animationId, elapsed, snake, food,
                                 direction, gameSpeed, moveTimer, stored, frames >> ]_vars

C10_Turned ==
  /\ log = << "input" >>
  /\ nextDirection # direction
  /\ moves > 0

\* the step is a tick whose update releases a discrete step
StepDue ==
  /\ TaskIs("gameLoop") /\ isRunning /\ ~isPaused
  /\ moveTimer + elapsed >= gameSpeed

\* the head cell that step computes
NextHead == NewHead(snake[1], nextDirection)

\* C11: a step whose new head lies outside the board leaves the game not
\* running and the segments, food, score and level as they were; it is the
\* only step of its tick and calls onGameOver once; no task calls onGameOver
\* more than once or without such a step.
C11_WallDeath ==
  [][ /\ (StepDue /\ HitsWall(NextHead)) =>
           /\ ~isRunning'
           /\ UNCHANGED << snake, food, score, level >>
           /\ Count(log', "moveSnake") = 1
           /\ Count(log', "onGameOver") = 1
      /\ Count(log', "onGameOver") <= Count(log', "moveSnake")
      /\ Count(log', "moveSnake") <= 1 ]_vars

C11_DiedAtWall ==
  /\ log # << >> /\ log[1] = "gameLoop" /\ Has(log, "onGameOver")
  /\ HitsWall(NewHead(snake[1], direction))
  /\ ~isRunning

\* C13: a step whose new head is on the board, on no segment and not on the
\* food turns the segments s into the new head followed by s without its
\* last element, and leaves score, level, move interval and food unchanged.
C13_PlainStep ==
  [][ (/\ StepDue /\ ~HitsWall(NextHead) /\ ~OnSnake(snake, NextHead)
       /\ NextHead # food) =>
        /\ snake' = << NextHead >> \o SubSeq(snake, 1, Len(snake) - 1)
        /\ Len(snake') = Len(snake)
        /\ UNCHANGED << score, level, gameSpeed, food >> ]_vars

\* (100,200),(80,200),(60,200) moving right has become (120,200),(100,200),(80,200)
C13_MovedRight ==
  /\ Has(log, "moveSnake") /\ ~Has(log, "eatFood")
  /\ snake = << Cell(6, 10), Cell(5, 10), Cell(4, 10) >>
  /\ score = 0

\* C14: a step whose new head is on the board, on no segment and on the food
\* puts the head in front of all the segments, adds exactly 10 to score and
\* leaves the food on a cell of the board that no segment of the grown snake
\* occupies.
C14_EatingStep ==
  [][ (/\ StepDue /\ ~HitsWall(NextHead) /\ ~OnSnake(snake, NextHead)
       /\ NextHead = food) =>
        /\ snake' = << NextHead >> \o snake
        /\ Len(snake') = Len(snake) + 1
        /\ score' = score + 10
        /\ food' \in FoodRange
        /\ ~OnSnake(snake', food') ]_vars

C14_Ate ==
  /\ Has(log, "eatFood")
  /\ snake = << Cell(6, 10), Cell(5, 10), Cell(4, 10), Cell(3, 10) >>
  /\ score = 10

\* C17: a task changes score in two ways only: a step that eats adds exactly
\* 10, and init (reached through reset) sets it to 0; a task that neither
\* eats nor initialises (tick, pause, stop, start, input, death) leaves it.
C17_ScoreChanges ==
  [][ IF Has(log', "init") THEN score' = 0
      ELSE IF Has(log', "eatFood")
           THEN Count(log', "eatFood") = 1 /\ score' = score + 10
           ELSE score' = score ]_vars

C17_Scored ==
  /\ log # << >> /\ log[1] = "start" /\ Has(log, "requestAnimationFrame")
  /\ score = FoodScore /\ Len(snake) = 4

\* C19: in every state highScore (null counting as 0) is at least score.
\* The code breaks it: highScore is written by init and gameOver only, so
\* during a run score passes it.
C19_HighScoreAtLeastScore == ToNumber(highScore) >= score

\* a finalisation as gameOver performs it: not running, the score saved if it
\* exceeds the stored high score, highScore read back, one notification
Finalised ==
  /\ ~isRunning'
  /\ stored' = saveHighScore(Cur(<< >>), score).stored
  /\ highScore' = getHighScore(stored')
  /\ Count(log', "saveHighScore") = 1
  /\ Count(log', "onGameOver") = 1

\* C12: a step whose new head is on the board and on a cell of a segment,
\* the last segment included, finalises the run as a wall collision does and
\* leaves the segments (and food, score, level) as they were.
C12_SelfDeath ==
  [][ /\ (StepDue /\ ~HitsWall(NextHead) /\ OnSnake(snake, NextHead)) =>
           Finalised /\ UNCHANGED << snake, food, score, level >>
      /\ (StepDue /\ HitsWall(NextHead)) => Finalised ]_vars

\* the head has run into the last segment
C12_DiedOnTail ==
  /\ log # << >> /\ log[1] = "gameLoop" /\ Has(log, "onGameOver")
  /\ NewHead(snake[1], direction) = snake[Len(snake)]
  /\ ~isRunning

\* C15: the move interval changes only when a step that eats takes score to
\* a multiple of 50 while the interval is above the floor, and then it drops
\* by exactly 10; it is never below the floor; a run that started at 120 has
\* interval 110 and level 2 at score 50, interval 100 and level 3 at score 100.
C15_SpeedSteps ==
  [][ /\ gameSpeed' = (IF Has(log', "eatFood") /\ score' % 50 = 0 /\ gameSpeed > MinSpeed
                       THEN gameSpeed - 10 ELSE gameSpeed)
      /\ gameSpeed' >= MinSpeed
      /\ score' = 50 => (gameSpeed' = 110 /\ level' = 2)
      /\ score' = 100 => (gameSpeed' = 100 /\ level' = 3) ]_vars

\* the score reaches a multiple of 50 with the interval at its floor
C15_AtFloor ==
  /\ Has(log, "eatFood")
  /\ score = 400
  /\ gameSpeed = MinSpeed

\* C16: in every state level = 1 + floor(score / 50).  The code breaks it:
\* eatFood raises level only together with shortening the interval, so
\* level stays once the interval is at its floor.
C16_LevelOfScore == level = 1 + (score \div 50)

\* C18: the stored high score is the largest score a run has died with
\* (nothing stored while that is 0), and after a finalisation highScore is
\* the stored value as getHighScore reads it.
C18_StoredIsMax ==
  /\ IF stored = NoItem THEN finalMax = 0 ELSE JSONparse(stored) = finalMax
  /\ Has(log, "gameOver") => highScore = getHighScore(stored)

\* a run has died with 90 where 50 was stored
C18_Replaced ==
  /\ Has(log, "saveHighScore")
  /\ score = 90
  /\ stored = JSONstringify(90)
  /\ highScore = 90

\* C20: no task other than an initialisation lowers level.
C20_LevelNeverDrops ==
  [][ ~Has(log', "init") => level' >= level ]_vars

\* a run has died at level 2
C20_DiedAtLevelTwo ==
  /\ Has(log, "gameOver")
  /\ level = 2

\* C21: in every state score is an integer >= 0, highScore an integer >= 0
\* (not null), level an integer >= 1.  The code breaks it: with nothing
\* stored getHighScore gives null, which init and gameOver put in highScore.
C21_GameStateTyped ==
  /\ score \in Nat
  /\ highScore # Null /\ highScore \in Nat
  /\ level \in Nat /\ level >= 1

\* C22: no two segments are on the same cell, and every segment is on a cell
\* of the board (a multiple of the grid size in both coordinates, within
\* [0, width) x [0, height)).
C22_SegmentsDistinctOnBoard ==
  /\ \A i \in DOMAIN snake : snake[i] \in FoodRange
  /\ \A i, j \in DOMAIN snake : i < j => snake[i] # snake[j]

\* a grown snake has stepped beside its own body
C22_SteppedBesideBody ==
  /\ Has(log, "moveSnake") /\ ~Has(log, "gameOver")
  /\ Len(snake) > 4
  /\ snake[1].y = snake[4].y + gridSize
  /\ snake[1].x = snake[4].x

\* C23: the food is on a cell of the board that no segment occupies.
C23_FoodOnFreeCell == food \in FoodRange /\ ~OnSnake(snake, food)

\* food has been placed anew beside a grown snake
C23_Relocated ==
  /\ Has(log, "generateFood")
  /\ Len(snake) > 4
  /\ food # snake[1]

\* C24: from gameOver to the next init no task performs a step or changes
\* the segments, score or level.  The code breaks it: start() sets isRunning
\* whether or not the run has died, and the ticks step the snake again.
C24_DeadStaysDead ==
  [][ (dead /\ ~Has(log', "init")) =>
        /\ ~Has(log', "moveSnake")
        /\ UNCHANGED << snake, score, level >> ]_vars

\* C27: getHighScore gives 0 when nothing is stored.  The code breaks it:
\* load returns `defaultValue || null`, which is null for the default 0.
C27_GetHighScoreDefault == stored = NoItem => getHighScore(stored) = 0

\* C25: a running game always has its next tick pending, also after a tick
\* whose render call failed.  The code breaks it: the exception leaves
\* gameLoop before it requests the next frame.
C25_RunningHasTick == isRunning => frames # << >>

\* C26: a game that has been constructed has a positive width and a positive
\* height.  The code breaks it: the constructor stores any config.
C26_BadDimensionsRejected ==
  config # NoGame => (config.width > 0 /\ config.height > 0)

\* C28: while a cell of the board is free, generateFood comes to its end
\* with the food on a free cell; once the snake occupies every cell, it
\* never leaves its loop.  (The segments are distinct cells of the board, so
\* a cell is free exactly when the snake is shorter than the board has
\* cells.)
C28_FoodPlacement ==
  /\ (sampling /\ Len(snake) < BoardCells) ~> (~sampling /\ ~OnSnake(snake, food))
  /\ [][ (sampling /\ ~sampling') => Len(snake) < BoardCells ]_vars

\* the loop has ended on the one free cell of the board
C28_PlacedOnLastCell ==
  /\ ~sampling
  /\ Len(snake) = BoardCells - 1
  /\ ~OnSnake(snake, food)

\* C29: while the manager listens, isKeyPressed(k) is true exactly when the
\* last keyboard event for k was a keydown, and false for a key that has had
\* no event.
C29_KeyPressedIsLastEvent ==
  listening => \A key \in InputKeys :
                 isKeyPressed(keys, key) = (lastEvent[key] = "keydown")

\* a key has been pressed and released
C29_Released ==
  /\ listening
  /\ \E key \in InputKeys :
       key \in DOMAIN keys /\ ~keys[key] /\ lastEvent[key] = "keyup"

\* C30: an event invokes every handler whose last call for its type was
\* addHandler, none whose last call was removeHandler, and none after
\* destroy.
C30_HandlersFollowCalls ==
  [][ \A eventType \in EventTypes, handler \in Handlers :
        TaskIs(eventType) =>
          /\ (listening /\ lastCall[eventType][handler] = "added")
               => Has(invoked', handler)
          /\ lastCall[eventType][handler] = "removed" => ~Has(invoked', handler)
          /\ ~listening => ~Has(invoked', handler) ]_vars

\* C31: the direction a step applies is never the opposite of the direction
\* in force before it - the one the previous step applied, or right after an
\* initialisation - and the head never moves onto the segment behind it;
\* within a run that cell is not even the one the step heads for.
C31_NoReversal ==
  [][ Has(log', "moveSnake") =>
        /\ direction' # Opposite(direction)
        /\ snake'[1] # snake[2]
        /\ ~dead => NextHead # snake[2] ]_vars

\* the snake has turned up and then back to the left
C31_TurnedBack ==
  /\ Has(log, "moveSnake") /\ ~Has(log, "gameOver")
  /\ ~dead
  /\ direction = "left"

\* C32: gameOver works in order - stop (not running, the handle cancelled
\* and cleared), then saveHighScore and the reading back of highScore, then
\* the notification - so what onGameOver finds is a game that is not
\* running, with no handle, whose highScore is the stored one and (null
\* counting as 0) not below the final score.
C32_FinalisationOrdered ==
  /\ Has(log, "gameOver") =>
       LET rest == SubSeq(log, IndexOf(log, "gameOver"), Len(log))
       IN /\ 0 < IndexOf(rest, "stop")
          /\ IndexOf(rest, "stop") < IndexOf(rest, "saveHighScore")
          /\ IndexOf(rest, "saveHighScore") < IndexOf(rest, "onGameOver")
          /\ seen # << >>
  /\ \A i \in DOMAIN seen :
       /\ ~seen[i].isRunning
       /\ seen[i].animationId = NoId
       /\ seen[i].highScore = getHighScore(seen[i].stored)
       /\ ToNumber(seen[i].highScore) >= seen[i].score

\* the notification of a death with 90 where 50 was stored found 90
C32_NotifiedOfRecord ==
  /\ seen # << >>
  /\ seen[1].score = 90
  /\ seen[1].highScore = 90
  /\ seen[1].stored # JSONstringify(LevelEvery)

\* C33: at most one animation frame callback is pending, and animationId is
\* its handle.  The code breaks it: the frame that gameLoop requests after a
\* death is still pending when start() requests another.
C33_OneFramePending ==
  /\ Len(frames) <= 1
  /\ frames # << >> => animationId = frames[1]

\* C34: stop(), destroy() and a reset() that start() does not follow leave
\* the game not running; a game that is not running starts running only in
\* a task that calls start(); and a frame callback delivered to a game that
\* is not running calls neither update nor render and leaves the entity
\* model as it was.
C34_StoppedStaysStill ==
  [][ /\ (\/ TaskIs("stop") \/ TaskIs("destroy")
          \/ (TaskIs("reset") /\ ~Has(log', "start"))) => ~isRunning'
      /\ (~isRunning /\ isRunning') => Has(log', "start")
      /\ (~isRunning /\ TaskIs("gameLoop")) =>
           /\ ~Has(log', "update") /\ ~Has(log', "render")
           /\ ~isRunning'
           /\ UNCHANGED entityVars ]_vars

\* a callback that destroy() could not cancel has been delivered
C34_StaleTickAfterDestroy ==
  /\ ~listening
  /\ ~isRunning
  /\ log = << "gameLoop" >>

\* C35: in every state after an initialisation the snake has 3 + score / 10
\* segments, and score is a multiple of 10.
C35_LengthOfScore ==
  /\ score % FoodScore = 0
  /\ Len(snake) = 3 + score \div FoodScore

\* the snake has just eaten its sixth food or a later one
C35_GrewInRun ==
  /\ Has(log, "eatFood")
  /\ score > LevelEvery
  /\ Len(snake) > 8

\* C36: a task that initialises (reset(), init()) leaves the move timer at
\* 0.  The code breaks it: neither reset() nor init() writes moveTimer, so
\* the time accumulated before the reset counts towards the first step
\* after it.
C36_ResetClearsMoveTimer ==
  [][ Has(log', "init") => moveTimer' = 0 ]_vars

====
